---- MODULE Spec2Model ----
(***************************************************************************)
(* Model of module/outputartnet/outputartnet.py: the frame update and      *)
(* transmission engine of the Art-Net output module.                       *)
(*                                                                         *)
(* Time is counted in ticks of 0.25 s, so the 0.5 s maintenance interval   *)
(* of line 145 is 2 ticks.  The 0.1 s sleeps of _stop are shorter than a   *)
(* tick and nothing reads the clock after the loop has ended, so the clock *)
(* is left alone from then on.                                             *)
(* Floating point values are exact rationals <<numerator, denominator>>    *)
(* with a positive denominator.                                            *)
(* dmxframe is a sequence: the entry of chanindx is dmxframe[chanindx+1].  *)
(***************************************************************************)
EXTENDS Integers, Sequences, FiniteSets, TLC

VARIABLES pc, dmxframe, update, prevtime, now, input, patch,
          lastsent, stopframe, nstop, closed, err, hbcount, idlesince,
          cyclesends

vars == <<pc, dmxframe, update, prevtime, now, input, patch,
          lastsent, stopframe, nstop, closed, err, hbcount, idlesince,
          cyclesends>>

\* ---------------------------------------------------------------- bounds
\* the clock stops the loop at this many ticks
MaxTime == 6
\* the longest time.sleep of one cycle, in ticks
MaxDelay == 2
\* the longest duration of one broadcastDMX call, in ticks
MaxJitter == 1

\* ------------------------------------------------------ program constants
\* 0.5 s, the maintenance interval
Maintenance == 2

\* the absent value of patch.getfloat
None == << >>

\* channels with an item in the [input] section: channel001 and channel005
Configured == {0, 4}

\* the values the value source can hold for a configured channel
RawValues == { <<0 - 1000, 1>>, <<1, 2>>, <<1000, 1>> }

\* the [scale] and [offset] items a channel can have: none, or -255 and 255
ScaleOffsets == { <<None, None>>, << <<0 - 255, 1>>, <<255, 1>> >> }

\* the size from the [input] section: the last configured channel
ConfiguredSize ==
    IF Configured = {} THEN 0
    ELSE (CHOOSE c \in Configured : \A d \in Configured : d <= c) + 1

\* mutant: the override of line 90 is left out
dmxsizeNoOverride == ConfiguredSize

\* dmxsize after the override of line 90
dmxsize == 512

\* dmxframe = [0] * dmxsize
EmptyFrame == [i \in 1..dmxsize |-> 0]

\* mutant: _stop sends the frame of the loop, not a blank one
BlankFrameNotBlank == dmxframe

\* dmxframe = [0] * 512, the local frame of _stop
BlankFrame == [i \in 1..512 |-> 0]

\* the number of broadcastDMX calls of _stop
StopSends == 6

\* ------------------------------------------------------------ value mapper
\* mutant: an absent channel reads as 0.0
getinputAbsentZero(chanindx) ==
    IF chanindx \in Configured /\ input[chanindx] # None
    THEN input[chanindx] ELSE <<0, 1>>

\* patch.getfloat('input', chanstr): None when the channel is not present
getinput(chanindx) ==
    IF chanindx \in Configured THEN input[chanindx] ELSE None
\* mutant: a channel without a scale entry gets the slope 1 instead of 255
getscaleDefaultOne(chanindx) ==
    IF chanindx \in Configured /\ patch[chanindx][1] # None
    THEN patch[chanindx][1]
    ELSE <<1, 1>>

\* patch.getfloat('scale', chanstr, default=255)
getscale(chanindx) ==
    IF chanindx \in Configured /\ patch[chanindx][1] # None
    THEN patch[chanindx][1] ELSE <<255, 1>>

\* patch.getfloat('offset', chanstr, default=0)
getoffset(chanindx) ==
    IF chanindx \in Configured /\ patch[chanindx][2] # None
    THEN patch[chanindx][2] ELSE <<0, 1>>

\* EEGsynth.rescale(xval, slope, offset) = slope * xval + offset
rescale(xval, slope, offset) ==
    << slope[1] * xval[1] * offset[2] + offset[1] * slope[2] * xval[2],
       slope[2] * xval[2] * offset[2] >>

\* EEGsynth.limit(xval, lo, hi)
limit(xval, lo, hi) ==
    IF xval[1] < lo * xval[2] THEN <<lo, 1>>
    ELSE IF xval[1] > hi * xval[2] THEN <<hi, 1>>
    ELSE xval
\* mutant: the level is rounded to the nearest integer instead of truncated
intRound(xval) ==
    IF xval[1] >= 0
    THEN (2 * xval[1] + xval[2]) \div (2 * xval[2])
    ELSE 0 - ((2 * (0 - xval[1]) + xval[2]) \div (2 * xval[2]))

\* int(chanval): truncation toward zero
int(xval) ==
    IF xval[1] >= 0 THEN xval[1] \div xval[2]
    ELSE 0 - ((0 - xval[1]) \div xval[2])

\* mutant: the limit of line 132 is left out
MapLevelNoLimit(chanindx, chanval) ==
    int(rescale(chanval, getscale(chanindx), getoffset(chanindx)))

\* lines 127-133: the level of a channel whose value is present
MapLevel(chanindx, chanval) ==
    int(limit(rescale(chanval, getscale(chanindx), getoffset(chanindx)), 0, 255))

\* mutant: update is assigned for every present channel, so an unchanged
\* channel clears the flag an earlier channel has set
ScanChannelAssignsFlag(chanindx, frame, upd) ==
    LET chanval == getinput(chanindx) IN
    IF chanval = None THEN <<frame, upd>>
    ELSE LET level == MapLevel(chanindx, chanval) IN
         IF frame[chanindx + 1] # level
         THEN <<[frame EXCEPT ![chanindx + 1] = level], TRUE>>
         ELSE <<frame, FALSE>>
\* mutant: the level is written but update is never set
ScanChannelNoFlag(chanindx, frame, upd) ==
    LET chanval == getinput(chanindx) IN
    IF chanval = None THEN <<frame, upd>>
    ELSE LET level == MapLevel(chanindx, chanval) IN
         IF frame[chanindx + 1] # level
         THEN <<[frame EXCEPT ![chanindx + 1] = level], upd>>
         ELSE <<frame, upd>>
\* mutant: the level is written, but update is set only when it rose
ScanChannelFlagOnRise(chanindx, frame, upd) ==
    LET chanval == getinput(chanindx) IN
    IF chanval = None THEN <<frame, upd>>
    ELSE LET level == MapLevel(chanindx, chanval) IN
         IF frame[chanindx + 1] # level
         THEN <<[frame EXCEPT ![chanindx + 1] = level],
                upd \/ level > frame[chanindx + 1]>>
         ELSE <<frame, upd>>

\* lines 136-139: one channel of the scan, on the pair <<frame, update>>
ScanChannel(chanindx, frame, upd) ==
    LET chanval == getinput(chanindx) IN
    IF chanval = None THEN <<frame, upd>>
    ELSE LET level == MapLevel(chanindx, chanval) IN
         IF frame[chanindx + 1] # level
         THEN <<[frame EXCEPT ![chanindx + 1] = level], TRUE>>
         ELSE <<frame, upd>>

\* lines 117-139: for chanindx in range(chanindx, last), the channels in
\* ascending order (the range is split in two to keep the evaluation shallow,
\* and a range without a channel of the [input] section, where getfloat
\* returns None for every channel, is passed over at once)
RECURSIVE ScanFrom(_, _, _, _)
ScanFrom(chanindx, last, frame, upd) ==
    IF chanindx >= last THEN <<frame, upd>>
    ELSE IF \A c \in Configured : c < chanindx \/ c >= last
         \* every channel of the range is absent: only the continue of line 124
         THEN <<frame, upd>>
    ELSE IF last = chanindx + 1 THEN ScanChannel(chanindx, frame, upd)
    ELSE LET mid == (chanindx + last) \div 2
             r == ScanFrom(chanindx, mid, frame, upd)
         IN  IF r[2] THEN ScanFrom(mid, last, r[1], TRUE)
             ELSE ScanFrom(mid, last, r[1], FALSE)

\* mutant: every cycle starts from an empty frame
ScanFresh(frame) == ScanFrom(0, Len(frame), EmptyFrame, FALSE)

\* lines 114-139: update = False, then the scan of range(0, dmxsize)
Scan(frame) == ScanFrom(0, Len(frame), frame, FALSE)

\* mutant: the comparison of line 145 is not strict
HeartbeatDueNotStrict(t, prev) == t - prev >= Maintenance
\* mutant: the current time is compared without subtracting prevtime
HeartbeatDueNoPrev(t, prev) == t > Maintenance
\* mutant: the interval is compared one clock tick late
HeartbeatDueLate(t, prev) == t - prev > Maintenance + 1

\* line 145: (time.time() - prevtime) > 0.5
HeartbeatDue(t, prev) == t - prev > Maintenance

\* mutant: the branch of line 141 is left out, a frame is only sent when the
\* maintenance interval has passed
CycleSendsHeartbeatOnly(upd, t, prev) ==
    IF HeartbeatDue(t, prev) THEN 1 ELSE 0

\* lines 141-148: the number of broadcastDMX calls of one cycle
CycleSends(upd, t, prev) ==
    IF upd THEN 1
    ELSE IF HeartbeatDue(t, prev) THEN 1
    ELSE 0

\* artnet.broadcastDMX(dmxframe, address): TRUE when the call returns, FALSE
\* when it raises a network error to its caller
broadcastDMX == BOOLEAN

\* ------------------------------------------------------------------ state
Init ==
    /\ pc = "start"
    /\ dmxframe = << >>
    /\ update = FALSE
    /\ prevtime = 0
    /\ now = 0
    /\ input \in [Configured -> RawValues \cup {None}]
    \* channel001 has no [scale] or [offset] item, channel005 may have them
    /\ patch \in {p \in [Configured -> ScaleOffsets] : p[0] = <<None, None>>}
    /\ lastsent = << >>
    /\ stopframe = << >>
    /\ nstop = 0
    /\ closed = FALSE
    /\ err = "none"
    /\ hbcount = 0
    /\ idlesince = 0
    /\ cyclesends = 0
\* mutant: prevtime is not set from the clock after the send and holds a
\* time long before startup
StartStalePrevtime ==
    /\ pc = "start"
    /\ dmxframe' = EmptyFrame
    /\ lastsent' = EmptyFrame
    /\ \E ok \in broadcastDMX :
         IF ok
         THEN /\ prevtime' = 0 - (Maintenance + 1)
              /\ idlesince' = now
              /\ pc' = "loop"
              /\ err' = err
         ELSE /\ pc' = "traceback"
              /\ err' = "start_send"
              /\ UNCHANGED <<prevtime, idlesince>>
    /\ UNCHANGED <<update, now, input, patch, stopframe, nstop, closed, hbcount,
                   cyclesends>>

\* _start, lines 76-99; broadcastDMX either returns or raises a network
\* error, which nothing catches outside the try of line 191.  The clock
\* reading of line 99 is taken after the send has returned
Start ==
    /\ pc = "start"
    /\ dmxframe' = EmptyFrame
    /\ lastsent' = EmptyFrame
    /\ \E ok \in broadcastDMX :
         IF ok
         THEN /\ prevtime' = now
              /\ idlesince' = now
              /\ pc' = "loop"
              /\ err' = err
         ELSE /\ pc' = "traceback"
              /\ err' = "start_send"
              /\ UNCHANGED <<prevtime, idlesince>>
    /\ UNCHANGED <<update, now, input, patch, stopframe, nstop, closed, hbcount,
                   cyclesends>>

\* the value source changes one key between two cycles
ValueSourceUpdate ==
    /\ pc = "loop"
    /\ \E c \in Configured, v \in RawValues \cup {None} :
         /\ input[c] # v
         /\ input' = [input EXCEPT ![c] = v]
    /\ UNCHANGED <<pc, dmxframe, update, prevtime, now, patch, lastsent,
                   stopframe, nstop, closed, err, hbcount, idlesince,
                   cyclesends>>

\* _loop_once, lines 114-148, running to its end or to a network error
LoopOnce ==
    /\ pc = "loop"
    /\ LET r == Scan(dmxframe)
           n == CycleSends(r[2], now, prevtime)
       IN
       /\ dmxframe' = r[1]
       /\ update' = r[2]
       /\ cyclesends' = n
       /\ IF n > 0
          THEN /\ lastsent' = r[1]
               /\ \E ok \in broadcastDMX, j \in 0..MaxJitter :
                    IF ok
                    THEN /\ now' = now + j
                         /\ prevtime' = now + j
                         /\ idlesince' = IF r[2] THEN now + j ELSE idlesince
                         /\ hbcount' = IF r[2] THEN 0 ELSE hbcount + 1
                         /\ pc' = "sleep"
                         /\ err' = err
                    ELSE /\ pc' = "traceback"
                         /\ err' = "cycle_send"
                         /\ UNCHANGED <<now, prevtime, idlesince, hbcount>>
          ELSE /\ pc' = "sleep"
               /\ UNCHANGED <<lastsent, now, prevtime, idlesince, hbcount, err>>
    /\ UNCHANGED <<input, patch, stopframe, nstop, closed>>

\* line 162: time.sleep(patch.getfloat('general', 'delay'))
Sleep ==
    /\ pc = "sleep"
    /\ \E d \in 0..MaxDelay :
         /\ now + d <= MaxTime
         /\ now' = now + d
    /\ pc' = "loop"
    \* the next cycle has sent nothing yet
    /\ cyclesends' = 0
    /\ UNCHANGED <<dmxframe, update, prevtime, input, patch, lastsent,
                   stopframe, nstop, closed, err, hbcount, idlesince>>

\* the channel indices before which an exception can interrupt the scan with
\* a different outcome: before the first channel, and after each channel of
\* the [input] section (the last of them is the scan left without its send)
InterruptPoints == {0} \cup {c + 1 : c \in Configured}

\* SystemExit, KeyboardInterrupt or RuntimeError raised inside _loop_forever
\* (lines 159-162) and caught at line 193: _stop begins, line 171
StopSignal ==
    /\ pc \in {"loop", "sleep"}
    /\ \/ UNCHANGED <<dmxframe, update>>
       \/ /\ pc = "loop"
          /\ \E k \in InterruptPoints :
               LET r == ScanFrom(0, k, dmxframe, FALSE) IN
               /\ dmxframe' = r[1]
               /\ update' = r[2]
    /\ pc' = "stop"
    /\ stopframe' = BlankFrame
    \* the value source is not polled any more, the no-change stretch is over
    /\ input' = [c \in Configured |-> None]
    /\ hbcount' = 0
    /\ idlesince' = 0
    /\ cyclesends' = 0
    /\ UNCHANGED <<prevtime, now, patch, lastsent, nstop, closed, err>>

\* lines 172-183: one broadcastDMX of _stop and the sleep after it
StopSend ==
    /\ pc = "stop"
    /\ nstop < StopSends
    /\ lastsent' = stopframe
    /\ \E ok \in broadcastDMX :
         IF ok
         THEN /\ nstop' = nstop + 1
              /\ UNCHANGED <<pc, err>>
         ELSE /\ pc' = "traceback"
              /\ err' = "stop_send"
              /\ UNCHANGED nstop
    /\ UNCHANGED <<dmxframe, update, prevtime, now, input, patch, stopframe,
                   closed, hbcount, idlesince, cyclesends>>
\* mutant: artnet.close() is called before the blank frames are sent
StopCloseFirst ==
    /\ pc = "stop"
    /\ ~closed
    /\ closed' = TRUE
    /\ UNCHANGED <<pc, dmxframe, update, prevtime, now, input, patch, lastsent,
                   stopframe, nstop, err, hbcount, idlesince, cyclesends>>

\* lines 184-185 and 195: artnet.close() and sys.exit()
StopClose ==
    /\ pc = "stop"
    /\ nstop >= StopSends
    /\ closed' = TRUE
    /\ pc' = "exit"
    /\ UNCHANGED <<dmxframe, update, prevtime, now, input, patch, lastsent,
                   stopframe, nstop, err, hbcount, idlesince, cyclesends>>

Next ==
    \/ Start
    \/ ValueSourceUpdate
    \/ LoopOnce
    \/ Sleep
    \/ StopSignal
    \/ StopSend
    \/ StopClose

Spec == Init /\ [][Next]_vars

TypeOK ==
    /\ pc \in {"start", "loop", "sleep", "stop", "exit", "traceback"}
    /\ now \in 0..(MaxTime + MaxJitter)
    /\ prevtime \in 0..now

\* ------------------------------------------------------------------ claims
\* the channels of the frame, as chanindx
Channels == 0..(dmxsize - 1)

\* a step of _loop_once that went through the whole scan
ScanCompleted == pc = "loop" /\ pc' \in {"sleep", "traceback"}

\* the value source holds no value for the channel
Absent(i) == i \notin Configured \/ input[i] = None

\* some present channel's computed level differs from the stored level
SomeLevelDiffers ==
    \E i \in Channels :
        ~Absent(i) /\ MapLevel(i, input[i]) # dmxframe[i + 1]

AllZero512(frame) == Len(frame) = 512 /\ \A i \in 1..512 : frame[i] = 0

\* C1: at the end of the channel scan of every cycle, update is true if and
\* only if some non-absent channel's computed level differed from the level
\* the frame held for it before the cycle.
C1_ChangeDetection ==
    [][ScanCompleted => (update' <=> SomeLevelDiffers)]_vars

\* a dirty cycle in which one channel was absent
C1_Witness ==
    pc = "sleep" /\ update /\ \E c \in Configured : input[c] = None

\* C2 as stated: at the end of a cycle of a stretch without change that has
\* lasted longer than the maintenance interval, the heartbeat sends of the
\* stretch number exactly the elapsed maintenance windows.
C2_ExactlyOnePerWindow ==
    (pc = "sleep" /\ now - idlesince > Maintenance)
        => hbcount = (now - idlesince) \div Maintenance

\* C2 as amended: in a stretch without change there is at most one heartbeat
\* send per elapsed maintenance window (the k-th one comes more than k
\* intervals after the stretch began), and a cycle never ends with the last
\* send more than one interval in the past.
C2_AtMostOnePerWindow ==
    pc \in {"loop", "sleep"} =>
        /\ hbcount > 0 => hbcount * Maintenance < prevtime - idlesince
        /\ pc = "sleep" => now - prevtime <= Maintenance

\* two heartbeat sends in one stretch without change
C2_Witness == pc = "sleep" /\ hbcount = 2

\* C3: every frame the stop sequence sends is 512 zeros, and when the
\* endpoint is closed at least five such frames have been sent, the last
\* frame sent being all zeros.
C3_ShutdownBlank ==
    /\ (pc = "stop" /\ nstop > 0) => AllZero512(lastsent)
    /\ closed => (nstop >= 5 /\ AllZero512(lastsent))

\* the stop sequence has run to the close from a frame that is not blank
C3_Witness == closed /\ \E i \in 1..Len(dmxframe) : dmxframe[i] # 0

\* C4 as stated: a send that fails inside a cycle leaves the loop running.
C4_SendErrorKeepsLooping == err = "cycle_send" => pc \in {"loop", "sleep"}

\* C5 as stated: a blank send that fails does not end the stop sequence, which
\* goes on to the remaining sends and the close.
C5_StopSurvivesSendError == err = "stop_send" => pc \in {"stop", "exit"}

\* C6: a step of the loop leaves the stored level of every channel the value
\* source reports absent as it was, whatever happens to the other channels
\* (so it is the same after each cycle of a run of cycles with the channel
\* absent): a channel whose stored level changes in the step is present.
C6_AbsentUnchanged ==
    [][(pc = "loop" /\ dmxframe' # dmxframe) =>
         \A i \in Channels :
             dmxframe'[i + 1] # dmxframe[i + 1] => ~Absent(i)]_vars

\* channel005 is absent and keeps a level that is not zero in a cycle that
\* changed the other channel
C6_Witness ==
    pc = "sleep" /\ update /\ input[4] = None /\ dmxframe[5] # 0

\* C7: every entry of the frame, and of every frame handed to a send, is an
\* integer in 0..255.
C7_Clamped ==
    /\ \A i \in 1..Len(dmxframe) : dmxframe[i] \in 0..255
    /\ \A i \in 1..Len(lastsent) : lastsent[i] \in 0..255

\* a cycle has mapped 1000 and -1000
C7_Witness ==
    /\ pc = "sleep" /\ update
    /\ input[0] = <<1000, 1>> /\ input[4] = <<0 - 1000, 1>>

\* C8: from _start on the frame has 512 entries, and so has every frame
\* handed to a send: at startup, in a cycle and in the stop sequence.
C8_FrameLength ==
    /\ pc # "start" => Len(dmxframe) = 512
    /\ lastsent # << >> => Len(lastsent) = 512
    /\ stopframe # << >> => Len(stopframe) = 512

\* a cycle has sent a changed frame and the stop sequence a blank one
C8_Witness ==
    pc = "stop" /\ nstop = 1 /\ update /\ prevtime > 0

\* C9: a cycle in which no present channel's computed level differs from the
\* stored level leaves the frame as it was, heartbeat send or not, and the
\* frame a cycle hands to the send is the stored frame.
C9_SendKeepsFrame ==
    [][ScanCompleted =>
         /\ ~SomeLevelDiffers => dmxframe' = dmxframe
         /\ lastsent' # lastsent => lastsent' = dmxframe']_vars

\* a heartbeat has resent a frame that is not blank with a channel present
C9_Witness ==
    /\ pc = "sleep" /\ hbcount >= 1
    /\ \E c \in Configured : input[c] # None /\ dmxframe[c + 1] # 0

\* C10 as stated: once the stop signal has been delivered the process does not
\* end before the endpoint has been closed.
C10_StopReleasesEndpoint == (stopframe # << >> /\ pc # "stop") => closed

\* every present channel's computed level is in the frame handed to the send
AllUpdatesIn(frame) ==
    \A i \in Channels : ~Absent(i) => frame[i + 1] = MapLevel(i, input[i])

\* C11: in every cycle in which a channel's level changed, exactly one send
\* is made, after the whole scan, so that the frame handed to it is the
\* stored frame with every update of the cycle; when the send returns the
\* last-sent timestamp is the time of that send, and the heartbeat branch
\* sends nothing in addition.
C11_DirtySend ==
    [][(ScanCompleted /\ SomeLevelDiffers) =>
          /\ cyclesends' = 1
          /\ lastsent' = dmxframe'
          /\ AllUpdatesIn(lastsent')
          /\ (pc' = "sleep" => prevtime' = now' /\ hbcount' = 0)]_vars

\* a dirty cycle that ran when the maintenance interval had passed as well,
\* and sent once
C11_Witness ==
    /\ pc = "sleep" /\ update /\ cyclesends = 1
    /\ prevtime = now /\ now > Maintenance /\ idlesince = now
    /\ lastsent = dmxframe
    /\ \E i \in 1..Len(dmxframe) : dmxframe[i] # 0

\* C12: in a cycle without any change a frame is sent, and the last-sent
\* timestamp reset, exactly when the time since the last send is strictly
\* greater than the maintenance interval; at the interval or below it
\* nothing is sent and the timestamp stays.
C12_HeartbeatCondition ==
    [][(ScanCompleted /\ ~SomeLevelDiffers) =>
          IF now - prevtime > Maintenance
          THEN /\ cyclesends' = 1
               /\ lastsent' = dmxframe'
               /\ (pc' = "sleep" => prevtime' = now' /\ hbcount' = hbcount + 1)
          ELSE /\ cyclesends' = 0
               /\ pc' = "sleep"
               /\ lastsent' = lastsent
               /\ prevtime' = prevtime
               /\ hbcount' = hbcount]_vars

\* a cycle without change that ran exactly one maintenance interval after
\* the last send, and sent nothing
C12_Witness ==
    /\ pc = "sleep" /\ ~update /\ cyclesends = 0
    /\ now - prevtime = Maintenance

\* v * scale + offset of a present channel as numerator and (positive)
\* denominator, with 255 and 0 where the patch has no entry
LinScale(i) == IF patch[i][1] = None THEN <<255, 1>> ELSE patch[i][1]

LinOffset(i) == IF patch[i][2] = None THEN <<0, 1>> ELSE patch[i][2]

LinNum(i) ==
    LinScale(i)[1] * input[i][1] * LinOffset(i)[2]
        + LinOffset(i)[1] * LinScale(i)[2] * input[i][2]

LinDen(i) == LinScale(i)[2] * input[i][2] * LinOffset(i)[2]

\* the same value clamped to [0, 255]
ClampNum(i) ==
    IF LinNum(i) < 0 THEN 0
    ELSE IF LinNum(i) > 255 * LinDen(i) THEN 255 * LinDen(i)
    ELSE LinNum(i)

\* level is the integer part of num / den (num >= 0, den > 0)
IsTruncation(level, num, den) == level * den <= num /\ num < (level + 1) * den

\* C13: the level stored for a present channel is clamp(v * scale + offset,
\* 0, 255) truncated to an integer, with scale 255 and offset 0 for a channel
\* that has no entry for them.
C13_MappingTruncates ==
    [][ScanCompleted =>
          \A i \in Channels :
              ~Absent(i) =>
                  IsTruncation(dmxframe'[i + 1], ClampNum(i), LinDen(i))]_vars

\* the value 0.5 on a channel without scale and offset entries is stored as
\* 127, the integer part of 127.5
C13_Witness ==
    /\ pc = "sleep"
    /\ patch[4] = <<None, None>>
    /\ input[4] = <<1, 2>>
    /\ dmxframe[5] = 127

\* round() of Python 3 for num / den >= 0: the nearest integer, the even
\* one of the two at a tie
Round(num, den) ==
    LET q == num \div den
        r == num % den
    IN IF 2 * r < den THEN q
       ELSE IF 2 * r > den THEN q + 1
       ELSE IF q % 2 = 0 THEN q ELSE q + 1

\* C14 as stated: the level stored for a present channel is the clamped
\* value rounded to the nearest integer.
C14_MappingRounds ==
    [][ScanCompleted =>
          \A i \in Channels :
              ~Absent(i) =>
                  dmxframe'[i + 1] = Round(ClampNum(i), LinDen(i))]_vars

\* C14 amended: the level stored for a present channel is never above the
\* clamped value: it is the rounded value when the fraction of the clamped
\* value is below one half, one less than the value rounded up when the
\* fraction is one half or more.
C14_MappingRoundsDown ==
    [][ScanCompleted =>
          \A i \in Channels :
              ~Absent(i) =>
                  LET frac2 == 2 * (ClampNum(i) % LinDen(i))
                      level == dmxframe'[i + 1]
                  IN IF frac2 < LinDen(i)
                     THEN level = Round(ClampNum(i), LinDen(i))
                     ELSE level = ((ClampNum(i) + LinDen(i)) \div LinDen(i)) - 1]_vars

\* channel 1 holds 127 for the value 0.5 (127.5 before the conversion),
\* which round() makes 128
C14_Witness ==
    /\ pc = "sleep" /\ update
    /\ input[0] = <<1, 2>>
    /\ dmxframe[1] = 127
    /\ Round(ClampNum(0), LinDen(0)) = 128

\* some present channel's computed level is not zero
SomeLevelNonzero ==
    \E i \in Channels : ~Absent(i) /\ MapLevel(i, input[i]) # 0

\* C15: the frame is all zero when the loop begins, so a cycle that starts
\* from the all-zero frame (the first cycle after _start among them) and
\* computes a nonzero level is a change: update is set and the frame with
\* that level is sent in the same cycle, whatever the time since the last
\* send.
C15_InitialTransmission ==
    [][(ScanCompleted /\ dmxframe = EmptyFrame /\ SomeLevelNonzero) =>
          /\ update'
          /\ cyclesends' = 1
          /\ lastsent' = dmxframe'
          /\ \E i \in Channels :
                 ~Absent(i) /\ lastsent'[i + 1] = MapLevel(i, input[i])
                            /\ lastsent'[i + 1] # 0]_vars

\* a nonzero frame was sent at the time of startup, before any maintenance
\* interval could pass
C15_Witness ==
    /\ pc = "sleep" /\ update /\ cyclesends = 1
    /\ now = 0 /\ prevtime = 0
    /\ lastsent # EmptyFrame
    /\ lastsent = dmxframe

\* C16: in the stop sequence the endpoint is closed once, after every one of
\* the blank sends; nothing is sent after the close, and no loop cycle runs
\* once the stop sequence has started.
C16_ShutdownOrdering ==
    [][/\ (closed' # closed) =>
              /\ ~closed /\ pc = "stop" /\ nstop = StopSends
              /\ pc' = "exit"
       /\ closed => UNCHANGED <<pc, lastsent, nstop>>
       /\ (stopframe # << >>) =>
              /\ pc' \notin {"loop", "sleep"}
              /\ UNCHANGED <<dmxframe, update, cyclesends, prevtime>>
              /\ (lastsent' # lastsent \/ nstop' # nstop) =>
                     /\ ~closed
                     /\ lastsent' = stopframe]_vars

\* the process has left _stop after at least one loop cycle with a send:
\* all blank sends made, the endpoint closed
C16_Witness ==
    /\ pc = "exit" /\ closed /\ nstop = StopSends
    /\ update
    /\ lastsent = stopframe

\* C17: once the stop sequence has run, the channel frame of the update
\* engine, the one the loop cycles wrote, holds 512 zeros.
C17_StopBlanksChannelFrame ==
    (pc = "exit" /\ closed) => AllZero512(dmxframe)

\* C18: while the loop runs and the sends return, a cycle that sends nothing
\* ends within the maintenance interval of the last send, so the next cycle
\* begins at most the interval plus its loop delay after that send, and a
\* cycle that begins later than the interval after the last send sends,
\* changed channel or not: two consecutive sends are at most the interval
\* plus one cycle period apart.
C18_BoundedSendGap ==
    [][/\ (ScanCompleted /\ cyclesends' = 0) => now - prevtime <= Maintenance
       /\ (pc = "sleep" /\ pc' = "loop") =>
              now' - prevtime' <= Maintenance + (now' - now)
       /\ (ScanCompleted /\ now - prevtime > Maintenance) =>
              /\ cyclesends' = 1
              /\ now - prevtime <= Maintenance + MaxDelay
              /\ lastsent' = dmxframe'
              /\ (pc' = "sleep" => prevtime' = now')]_vars

\* the first heartbeat of a run was sent the maintenance interval plus the
\* longest loop delay after the send of _start
C18_Witness ==
    /\ pc = "sleep" /\ cyclesends = 1 /\ hbcount = 1
    /\ idlesince = 0
    /\ prevtime = Maintenance + MaxDelay
    /\ now = prevtime

\* C19: from the return of _start on, between the cycles and at the end of
\* every completed cycle the last frame handed to a send equals the channel
\* frame entry by entry: no cycle leaves a change in the frame that it has
\* not sent.
C19_SentTracksStored ==
    pc \in {"loop", "sleep"} =>
        /\ Len(lastsent) = Len(dmxframe)
        /\ \A i \in 1..Len(dmxframe) : lastsent[i] = dmxframe[i]

\* a level has fallen back to zero after it was sent as nonzero, and the
\* cycle that wrote the zero has sent it
C19_Witness ==
    /\ pc = "sleep" /\ update /\ cyclesends = 1
    /\ now > 0
    /\ AllZero512(dmxframe) /\ AllZero512(lastsent)

\* C20: nothing is sent before _start sends, the frame it sends is 512
\* zeros, and prevtime is the time at which that send has returned, so a
\* cycle without change that begins the maintenance interval or less after
\* startup sends nothing.
C20_StartupBlank ==
    [][/\ pc = "start" =>
              /\ lastsent = << >> /\ cyclesends = 0
              /\ pc' # "start" => (AllZero512(lastsent') /\ cyclesends' = 0)
              /\ pc' = "loop" => prevtime' = now'
       /\ (ScanCompleted /\ ~SomeLevelDiffers /\ now <= Maintenance) =>
              /\ cyclesends' = 0
              /\ lastsent' = lastsent
              /\ prevtime' = prevtime]_vars

\* a cycle without change ran exactly the maintenance interval after
\* startup and sent nothing: the blank frame of _start is still the last
\* frame sent
C20_Witness ==
    /\ pc = "sleep" /\ ~update /\ cyclesends = 0
    /\ now = Maintenance /\ prevtime = 0 /\ idlesince = 0
    /\ AllZero512(lastsent)
====
